---- MODULE Spec2Model ----
(***************************************************************************)
(* The session lifecycle of the Dabba client: AuthProvider                 *)
(* (frontend/src/context/AuthContext.tsx) and the axios request            *)
(* interceptor (frontend/app/services/api.ts).                             *)
(*                                                                         *)
(* JavaScript runs one continuation at a time.  Every `await` is a         *)
(* suspension point: the native side of AsyncStorage performs the read,    *)
(* write or delete, and the awaiting function resumes in a later turn of   *)
(* the event loop.  A storage call that succeeds is therefore two steps    *)
(* (the native effect, then the continuation); a storage call that         *)
(* rejects and an HTTP response have no effect on shared state before the  *)
(* continuation, and are one step.                                         *)
(*                                                                         *)
(* Process 0 is loadStoredAuth, started once by the mount effect.          *)
(* Processes 1..MaxOps are calls of login, register or logout.             *)
(***************************************************************************)
EXTENDS Naturals, Sequences, FiniteSets, TLC

\* ------------------------------------------------------------------ bounds
MaxOps == 2
\* how many times the application is started
MaxLaunches == 2
\* how many times a screen calls its fetch function, the calls that follow a
\* successful update included
MaxFetches == 3
\* how many status updates, or subscriptions, a screen sends
MaxUpdates == 2
\* how many alerts a screen shows
MaxAlerts == 2

\* ------------------------------------------------------------------ values
\* null / undefined
None == "null"
\* what the remote system can issue
Tokens == {"t1", "t2"}
Users == {"u1", "u2"}
\* the user the remote system issued a token to
Owner(t) == IF t = "t2" THEN "u2" ELSE "u1"
\* user.role of the users the remote system knows
RoleOf(u) == IF u = "u2" THEN "driver" ELSE "customer"
\* the body of a successful login / register response: { token, user }
Payloads == [token : Tokens, user : Users]
NoData == [token |-> None, user |-> None]
\* a request without a body field the model tracks
NoBody == [phone |-> None, role |-> None]
\* error.response?.data?.detail of a failed request; None also stands for an
\* error that carries no response at all (network error, storage error)
Details == {None, "", "Invalid credentials"}
\* the plans of the subscription screen, and what its address field can hold
Plans == {"eco", "standard"}
Addresses == {"", "12 Main St"}
\* what is typed into the register form
Names == {"", "Asha"}
Emails == {"", "asha@example.com"}
Passwords == {"", "abc12", "abc123"}
\* the weekly menus the remote system can send (a day's menu is written as
\* its date), and the dates `new Date()` can give
WeeklyMenus == {<<>>, <<"mon", "tue">>}
Dates == {"tue", "wed"}
\* the deliveries the remote system can list: id and status
DeliveryIds == {"d1", "d2"}
Delivery(id, status) == [id |-> id, status |-> status]
DeliveryLists ==
    { <<>>,
      <<Delivery("d1", "pending"), Delivery("d2", "pending")>>,
      <<Delivery("d1", "delivered"), Delivery("d2", "pending")>>,
      <<Delivery("d1", "delivered"), Delivery("d2", "failed")>> }
\* data.phone as the caller of register passes it
Phones == {None, "", "5551234567"}
\* data.role as the caller of register passes it (None: the field is omitted)
Roles == {None, "customer", "driver"}
\* the argument of register, as far as the body built from it is concerned
Datas == [phone : Phones, role : Roles]

\* the call groups api.ts exports besides authAPI
Groups == {"menu", "subscription", "wallet", "driver"}
\* error.response?.status of a failed request of those groups (None: no response)
Statuses == {None, "401", "500"}

Hydrate == 0
Ops == 1..MaxOps
Procs == {Hydrate} \cup Ops

VARIABLES
    store,      \* AsyncStorage's value under 'authToken' (None: no such key)
    store0,     \* the value under 'authToken' when the process started
    launch,     \* how many times the application has been started
    raced,      \* the calls of login / register that returned success while
                \* loadStoredAuth was waiting for GET /auth/me
    user,       \* useState<User | null>
    token,      \* useState<string | null>
    isLoading,  \* useState(true)
    kind,       \* per process: which function it runs
    pc,         \* per process: the await it is suspended at
    val,        \* per process: what its last AsyncStorage.getItem resolved with
    body,       \* per process: the request body handed to api.post
    arg,        \* per process: the data its caller passed to register
    resp,       \* per process: response.data of its login / register call
    caught,     \* loadStoredAuth: which await threw into its catch block
    settled,    \* per process: state of the promise the function returned
    result,     \* per process: the value login / register resolved with
    sent,       \* the requests dispatched to the remote system, in order
    pre,        \* <<user, token, isLoading, store>> when the latest call was made
    thrown,     \* error.response?.data?.detail of the error the latest catch block
                \* of login / register received (None: no such field)
    route,      \* the route the entry screen replaced itself with (None: it is
                \* still shown)
    alerts,     \* the Alert.alert(title, message) calls made so far
    driver,     \* DriverDeliveries: deliveries, isLoading, refreshing, updatingId
    dfetch,     \* DriverDeliveries: the fetchDeliveries calls, in the order made
    dupdate,    \* DriverDeliveries: the confirmed status updates, in the order made,
                \* each with the detail of the error its PUT was rejected with
    sub,        \* SubscriptionScreen: its useState fields
    sfetch,     \* SubscriptionScreen: the fetchSubscription calls, in the order made
    screate,    \* SubscriptionScreen: the createSubscription calls, in the order made
    dash,       \* CustomerDashboard: its useState fields
    hfetch,     \* CustomerDashboard: the fetchData calls, in the order made
    reg         \* RegisterScreen: its useState fields, and awaiting: the calls of
                \* register its handleRegister is suspended on

vars == <<store, store0, launch, raced, user, token, isLoading, kind, pc, val, body, arg, resp,
          caught, settled, result, sent, pre, thrown, route, alerts,
          driver, dfetch, dupdate, sub, sfetch, screate, dash, hfetch, reg>>

session == <<user, token, isLoading>>
locals == <<val, body, arg, resp, caught>>
\* the state of the screens, which the provider's functions never touch
driverVars == <<driver, dfetch, dupdate>>
subVars == <<sub, sfetch, screate>>
dashVars == <<dash, hfetch>>
screens == <<route, alerts, driverVars, subVars, dashVars, reg>>
\* the screens behind the entry screen
views == <<alerts, driverVars, subVars, dashVars, reg>>
\* everything but one screen
notDriver == <<store, store0, launch, raced, user, token, isLoading, kind, pc, val, body,
               arg, resp, caught, settled, result, sent, pre, thrown, route, subVars, dashVars, reg>>
notSub == <<store, store0, launch, raced, user, token, isLoading, kind, pc, val, body,
            arg, resp, caught, settled, result, sent, pre, thrown, route, driverVars, dashVars, reg>>
notDash == <<store, store0, launch, raced, user, token, isLoading, kind, pc, val, body,
             arg, resp, caught, settled, result, sent, pre, thrown, route, alerts,
             driverVars, subVars, reg>>
notReg == <<store, store0, launch, raced, user, token, isLoading, kind, pc, val, body,
            arg, resp, caught, settled, result, sent, pre, thrown, route, alerts,
            driverVars, subVars, dashVars>>
\* the provider's state and the state of its functions
provider == <<store, store0, launch, raced, user, token, isLoading, kind, pc, val, body, arg, resp,
              caught, settled, result, sent, pre, thrown>>

NoResult == [success |-> FALSE, error |-> None]
Success == [success |-> TRUE, error |-> None]
Failure(message) == [success |-> FALSE, error |-> message]

\* JavaScript truthiness of a string-or-null value
Truthy(v) == v # None /\ v # ""

\* a || b
OrElse(a, b) == IF Truthy(a) THEN a ELSE b

\* `Bearer ${token}`
Bearer(t) == "Bearer " \o t

PathOf(k) ==
    CASE k = "hydrate"  -> "/auth/me"
      [] k = "login"    -> "/auth/login"
      [] k = "register" -> "/auth/register"
      [] k = "menu"     -> "/menu"
      [] k = "subscription" -> "/subscription"
      [] k = "wallet"   -> "/wallet"
      [] k = "driver"   -> "/driver/deliveries"
      [] OTHER          -> None

\* ------------------------------------------------------------------ Init
Init ==
    /\ store0 \in Tokens \cup {None}
    /\ store = store0
    /\ launch = 1
    /\ raced = {}
    /\ user = None
    /\ token = None
    /\ isLoading = TRUE
    /\ kind = [p \in Procs |-> IF p = Hydrate THEN "hydrate" ELSE "idle"]
    /\ pc = [p \in Procs |-> IF p = Hydrate THEN "h_getItem" ELSE "idle"]
    /\ val = [p \in Procs |-> None]
    /\ body = [p \in Procs |-> NoBody]
    /\ arg = [p \in Procs |-> NoBody]
    /\ resp = [p \in Procs |-> NoData]
    /\ caught = None
    /\ settled = [p \in Procs |-> "pending"]
    /\ result = [p \in Procs |-> NoResult]
    /\ sent = <<>>
    /\ pre = <<None, None, TRUE, store0>>
    /\ thrown = None
    /\ route = None
    /\ alerts = <<>>
    /\ driver = [deliveries |-> <<>>, isLoading |-> TRUE, refreshing |-> FALSE,
                 updatingId |-> None]
    /\ dfetch = <<>>
    /\ dupdate = <<>>
    /\ sub = [subscription |-> None, isLoading |-> TRUE, refreshing |-> FALSE,
              showModal |-> FALSE, selectedPlan |-> None, address |-> "",
              isSubmitting |-> FALSE]
    /\ sfetch = <<>>
    /\ screate = <<>>
    /\ dash = [menu |-> <<>>, todayMenu |-> None, subscription |-> None,
               isLoading |-> TRUE, refreshing |-> FALSE]
    /\ hfetch = <<>>
    /\ reg = [name |-> "", email |-> "", phone |-> "", password |-> "",
              confirmPassword |-> "", role |-> "customer", isLoading |-> FALSE,
              error |-> "", awaiting |-> {}]

\* ------------------------------------------------- AsyncStorage (native side)
\* getItem('authToken') reads the key; the caller resumes later with the value
AsyncStorageGetItem(p) ==
    /\ pc[p] \in {"h_getItem", "i_getItem"}
    /\ val' = [val EXCEPT ![p] = store]
    /\ pc' = [pc EXCEPT ![p] = IF pc[p] = "h_getItem" THEN "h_getItem_ok"
                                                      ELSE "i_getItem_ok"]
    /\ UNCHANGED <<store, store0, launch, raced, screens, session, kind, body, arg, resp, caught, settled, result, sent, pre, thrown>>

\* setItem('authToken', authToken) writes the key
AsyncStorageSetItem(p) ==
    /\ pc[p] = "setItem"
    /\ store' = resp[p].token
    /\ pc' = [pc EXCEPT ![p] = "setItem_ok"]
    /\ UNCHANGED <<store0, launch, raced, screens, session, kind, locals, settled, result, sent, pre, thrown>>

\* removeItem('authToken') deletes the key (a missing key is no error)
AsyncStorageRemoveItem(p) ==
    /\ pc[p] \in {"h_removeItem", "removeItem"}
    /\ store' = None
    /\ pc' = [pc EXCEPT ![p] = IF pc[p] = "h_removeItem" THEN "h_removeItem_ok"
                                                         ELSE "removeItem_ok"]
    /\ UNCHANGED <<store0, launch, raced, screens, session, kind, locals, settled, result, sent, pre, thrown>>

\* ------------------------------------------------- api.ts request interceptor
\* seeded fault: the header is built from the provider's in-memory token
InterceptorFromMemory(p) ==
    /\ pc[p] = "i_getItem_ok"
    /\ sent' = Append(sent, [path |-> PathOf(kind[p]),
                             auth |-> IF Truthy(token) THEN Bearer(token) ELSE None,
                             phone |-> body[p].phone,
                             role |-> body[p].role])
    /\ pc' = [pc EXCEPT ![p] = "http"]
    /\ UNCHANGED <<store, store0, launch, raced, screens, session, kind, locals, settled, result, pre, thrown>>

\* The interceptor's getItem has resolved: attach the header when the value is
\* truthy, and dispatch the request.
Interceptor(p) ==
    /\ pc[p] = "i_getItem_ok"
    /\ sent' = Append(sent, [path |-> PathOf(kind[p]),
                             auth |-> IF Truthy(val[p]) THEN Bearer(val[p]) ELSE None,
                             phone |-> body[p].phone,
                             role |-> body[p].role])
    /\ pc' = [pc EXCEPT ![p] = "http"]
    /\ UNCHANGED <<store, store0, launch, raced, screens, session, kind, locals, settled, result, pre, thrown>>

\* ------------------------------------------------- loadStoredAuth (hydration)
\* The function has returned: its locals are gone.
Finish(p, how, value) ==
    /\ pc' = [pc EXCEPT ![p] = "done"]
    /\ settled' = [settled EXCEPT ![p] = how]
    /\ result' = [result EXCEPT ![p] = value]
    /\ val' = [val EXCEPT ![p] = None]
    /\ body' = [body EXCEPT ![p] = NoBody]
    /\ arg' = [arg EXCEPT ![p] = NoBody]
    /\ resp' = [resp EXCEPT ![p] = NoData]

\* seeded fault: the `if (storedToken)` test is missing, getMe is always called
LoadStoredAuthGotItemUnchecked ==
    /\ pc[Hydrate] = "h_getItem_ok"
    /\ token' = val[Hydrate]
    /\ pc' = [pc EXCEPT ![Hydrate] = "i_getItem"]
    /\ UNCHANGED <<isLoading, locals, settled, result>>
    /\ UNCHANGED <<store, store0, launch, raced, screens, user, kind, sent, pre, thrown>>

\* line 36 resolved: `if (storedToken)` { setToken; await getMe() }, else finally
LoadStoredAuthGotItem ==
    /\ pc[Hydrate] = "h_getItem_ok"
    /\ IF Truthy(val[Hydrate])
         THEN /\ token' = val[Hydrate]
              /\ pc' = [pc EXCEPT ![Hydrate] = "i_getItem"]
              /\ UNCHANGED <<isLoading, locals, settled, result>>
         ELSE /\ isLoading' = FALSE
              /\ Finish(Hydrate, "resolved", NoResult)
              /\ UNCHANGED <<token, caught>>
    /\ UNCHANGED <<store, store0, launch, raced, screens, user, kind, sent, pre, thrown>>

\* line 36 rejected: catch { await removeItem }
LoadStoredAuthGetItemFailed ==
    /\ pc[Hydrate] = "h_getItem"
    /\ caught' = "getItem"
    /\ pc' = [pc EXCEPT ![Hydrate] = "h_removeItem"]
    /\ UNCHANGED <<store, store0, launch, raced, screens, session, kind, val, body, arg, resp, settled, result, sent, pre, thrown>>

\* GET /auth/me answered with the user record u
GetMeResponse(u) ==
    /\ kind[Hydrate] = "hydrate" /\ pc[Hydrate] = "http"
    /\ resp' = [resp EXCEPT ![Hydrate] = [token |-> None, user |-> u]]
    /\ pc' = [pc EXCEPT ![Hydrate] = "http_ok"]
    /\ UNCHANGED <<store, store0, launch, raced, screens, session, kind, val, body, arg, caught, settled, result, sent, pre, thrown>>

\* seeded fault: the response is dropped, setUser is never called
LoadStoredAuthGotMeNoUser ==
    /\ pc[Hydrate] = "http_ok"
    /\ isLoading' = FALSE
    /\ Finish(Hydrate, "resolved", NoResult)
    /\ UNCHANGED <<store, store0, launch, raced, screens, user, token, kind, caught, sent, pre, thrown>>

\* line 39 resolved: setUser(response.data), then finally
LoadStoredAuthGotMe ==
    /\ pc[Hydrate] = "http_ok"
    /\ user' = resp[Hydrate].user
    /\ isLoading' = FALSE
    /\ Finish(Hydrate, "resolved", NoResult)
    /\ UNCHANGED <<store, store0, launch, raced, screens, token, kind, caught, sent, pre, thrown>>

\* line 39 rejected (the interceptor's storage read failed, or the request
\* failed): catch { await removeItem }
LoadStoredAuthGetMeFailed ==
    /\ pc[Hydrate] \in {"i_getItem", "http"}
    /\ caught' = "getMe"
    /\ pc' = [pc EXCEPT ![Hydrate] = "h_removeItem"]
    /\ UNCHANGED <<store, store0, launch, raced, screens, session, kind, val, body, arg, resp, settled, result, sent, pre, thrown>>

\* line 44 resolved: finally { setIsLoading(false) }
LoadStoredAuthRemoved ==
    /\ pc[Hydrate] = "h_removeItem_ok"
    /\ isLoading' = FALSE
    /\ Finish(Hydrate, "resolved", NoResult)
    /\ UNCHANGED <<store, store0, launch, raced, screens, user, token, kind, caught, sent, pre, thrown>>

\* seeded fault: setIsLoading(false) follows the try statement instead of sitting in
\* its finally block, so an error thrown by the catch block skips it
LoadStoredAuthRemoveFailedNoFinally ==
    /\ pc[Hydrate] = "h_removeItem"
    /\ Finish(Hydrate, "rejected", NoResult)
    /\ UNCHANGED <<store, store0, launch, raced, screens, session, kind, caught, sent, pre, thrown>>

\* line 44 rejected inside the catch block: finally runs, then the error
\* leaves the function
LoadStoredAuthRemoveFailed ==
    /\ pc[Hydrate] = "h_removeItem"
    /\ isLoading' = FALSE
    /\ Finish(Hydrate, "rejected", NoResult)
    /\ UNCHANGED <<store, store0, launch, raced, screens, user, token, kind, caught, sent, pre, thrown>>

\* ------------------------------------------------------------------ login
\* seeded fault: login raises the provider's loading flag while it runs
LoginCallSetsLoading(p) ==
    /\ pc[p] = "idle"
    /\ kind' = [kind EXCEPT ![p] = "login"]
    /\ pc' = [pc EXCEPT ![p] = "i_getItem"]
    /\ isLoading' = TRUE
    /\ UNCHANGED <<store, store0, launch, raced, screens, user, token, locals, settled, result, sent, thrown>>
    /\ pre' = <<user, token, isLoading, store>>

\* login(email, password) runs up to its first await: authAPI.login posts the
\* credentials, and the request waits in the interceptor's storage read.
LoginCall(p) ==
    /\ pc[p] = "idle"
    /\ kind' = [kind EXCEPT ![p] = "login"]
    /\ pc' = [pc EXCEPT ![p] = "i_getItem"]
    /\ UNCHANGED <<store, store0, launch, raced, screens, session, locals, settled, result, sent, thrown>>
    /\ pre' = <<user, token, isLoading, store>>

\* seeded fault: the token is kept in memory only, setItem is never called
LoginResponseSkipsStore(p, data) ==
    /\ kind[p] = "login" /\ pc[p] = "http"
    /\ resp' = [resp EXCEPT ![p] = data]
    /\ pc' = [pc EXCEPT ![p] = "setItem_ok"]
    /\ UNCHANGED <<store, store0, launch, raced, screens, session, kind, val, body, arg, caught, settled, result, sent, pre, thrown>>

\* seeded fault: setToken(authToken) runs before the storage write is awaited
LoginResponseSetsTokenFirst(p, data) ==
    /\ kind[p] = "login" /\ pc[p] = "http"
    /\ resp' = [resp EXCEPT ![p] = data]
    /\ token' = data.token
    /\ pc' = [pc EXCEPT ![p] = "setItem"]
    /\ UNCHANGED <<store, store0, launch, raced, screens, user, isLoading, kind, val, body, arg, caught, settled,
                   result, sent, pre, thrown>>

\* line 52 resolved with response.data = { token, user }: line 53 destructures
\* it and line 55 starts the storage write
LoginResponse(p, data) ==
    /\ kind[p] = "login" /\ pc[p] = "http"
    /\ resp' = [resp EXCEPT ![p] = data]
    /\ pc' = [pc EXCEPT ![p] = "setItem"]
    /\ UNCHANGED <<store, store0, launch, raced, screens, session, kind, val, body, arg, caught, settled, result, sent, pre, thrown>>

\* line 52 resolved without a body: destructuring undefined throws a TypeError,
\* which has no `response`; the catch block answers with the fallback
LoginMalformed(p) ==
    /\ kind[p] = "login" /\ pc[p] = "http"
    /\ Finish(p, "resolved", Failure(OrElse(None, "Login failed")))
    /\ thrown' = None
    /\ UNCHANGED <<store, store0, launch, raced, screens, session, kind, caught, sent, pre>>

\* seeded fault: the catch block ignores the server's message
LoginFailedGeneric(p, detail) ==
    /\ kind[p] = "login" /\ pc[p] \in {"i_getItem", "http"}
    /\ pc[p] = "i_getItem" => detail = None
    /\ Finish(p, "resolved", Failure("Login failed"))
    /\ thrown' = detail
    /\ UNCHANGED <<store, store0, launch, raced, screens, session, kind, caught, sent, pre>>

\* seeded fault: the catch block resets the in-memory session, as a failed hydration
\* is specified to
LoginFailedClearsSession(p, detail) ==
    /\ kind[p] = "login" /\ pc[p] \in {"i_getItem", "http"}
    /\ pc[p] = "i_getItem" => detail = None
    /\ token' = None
    /\ user' = None
    /\ Finish(p, "resolved", Failure(OrElse(detail, "Login failed")))
    /\ thrown' = detail
    /\ UNCHANGED <<store, store0, launch, raced, screens, isLoading, kind, caught, sent, pre>>

\* line 52 rejected: the interceptor's storage read failed (no response, so no
\* detail), or the request failed with `detail` in its error payload
LoginFailed(p, detail) ==
    /\ kind[p] = "login" /\ pc[p] \in {"i_getItem", "http"}
    /\ pc[p] = "i_getItem" => detail = None
    /\ Finish(p, "resolved", Failure(OrElse(detail, "Login failed")))
    /\ thrown' = detail
    /\ UNCHANGED <<store, store0, launch, raced, screens, session, kind, caught, sent, pre>>

\* loadStoredAuth is suspended at `await authAPI.getMe()`
CheckInFlight == pc[Hydrate] \in {"i_getItem", "i_getItem_ok", "http"}

\* seeded fault: setUser(userData) is missing from login
LoginStoredNoUser(p) ==
    /\ kind[p] = "login" /\ pc[p] = "setItem_ok"
    /\ token' = resp[p].token
    /\ Finish(p, "resolved", Success)
    /\ raced' = IF CheckInFlight THEN raced \cup {p} ELSE raced
    /\ UNCHANGED <<store, store0, launch, screens, user, isLoading, kind, caught, sent, pre, thrown>>

\* line 55 resolved: setToken(authToken); setUser(userData); return success
LoginStored(p) ==
    /\ kind[p] = "login" /\ pc[p] = "setItem_ok"
    /\ token' = resp[p].token
    /\ user' = resp[p].user
    /\ Finish(p, "resolved", Success)
    /\ raced' = IF CheckInFlight THEN raced \cup {p} ELSE raced
    /\ UNCHANGED <<store, store0, launch, screens, isLoading, kind, caught, sent, pre, thrown>>

\* seeded fault: setItem is awaited outside the try block, its rejection
\* escapes login
LoginStoreFailedRejects(p) ==
    /\ kind[p] = "login" /\ pc[p] = "setItem"
    /\ Finish(p, "rejected", NoResult)
    /\ thrown' = None
    /\ UNCHANGED <<store, store0, launch, raced, screens, session, kind, caught, sent, pre>>

\* line 55 rejected: nothing was written; the catch block answers with the
\* fallback
LoginStoreFailed(p) ==
    /\ kind[p] = "login" /\ pc[p] = "setItem"
    /\ Finish(p, "resolved", Failure(OrElse(None, "Login failed")))
    /\ thrown' = None
    /\ UNCHANGED <<store, store0, launch, raced, screens, session, kind, caught, sent, pre>>

\* ------------------------------------------------------------------ register
\* seeded fault: data is posted as it came
RegisterCallForwardsData(p, data) ==
    /\ pc[p] = "idle"
    /\ kind' = [kind EXCEPT ![p] = "register"]
    /\ arg' = [arg EXCEPT ![p] = data]
    /\ body' = [body EXCEPT ![p] = data]
    /\ pc' = [pc EXCEPT ![p] = "i_getItem"]
    /\ UNCHANGED <<store, store0, launch, raced, route, alerts, driverVars, subVars, dashVars, session, val, resp, caught, settled, result, sent, thrown>>
    /\ pre' = <<user, token, isLoading, store>>

\* register(data): the body is {...data, phone: data.phone || '0000000000'}.
\* What the calling screen does in the same turn is its caller's to say.
RegisterCall(p, data) ==
    /\ pc[p] = "idle"
    /\ kind' = [kind EXCEPT ![p] = "register"]
    /\ arg' = [arg EXCEPT ![p] = data]
    /\ body' = [body EXCEPT ![p] = [data EXCEPT !.phone = OrElse(data.phone, "0000000000")]]
    /\ pc' = [pc EXCEPT ![p] = "i_getItem"]
    /\ UNCHANGED <<store, store0, launch, raced, route, alerts, driverVars, subVars, dashVars, session, val, resp, caught, settled, result, sent, thrown>>
    /\ pre' = <<user, token, isLoading, store>>

RegisterResponse(p, data) ==
    /\ kind[p] = "register" /\ pc[p] = "http"
    /\ resp' = [resp EXCEPT ![p] = data]
    /\ pc' = [pc EXCEPT ![p] = "setItem"]
    /\ UNCHANGED <<store, store0, launch, raced, screens, session, kind, val, body, arg, caught, settled, result, sent, pre, thrown>>

RegisterMalformed(p) ==
    /\ kind[p] = "register" /\ pc[p] = "http"
    /\ Finish(p, "resolved", Failure(OrElse(None, "Registration failed")))
    /\ thrown' = None
    /\ UNCHANGED <<store, store0, launch, raced, screens, session, kind, caught, sent, pre>>

RegisterFailed(p, detail) ==
    /\ kind[p] = "register" /\ pc[p] \in {"i_getItem", "http"}
    /\ pc[p] = "i_getItem" => detail = None
    /\ Finish(p, "resolved", Failure(OrElse(detail, "Registration failed")))
    /\ thrown' = detail
    /\ UNCHANGED <<store, store0, launch, raced, screens, session, kind, caught, sent, pre>>

\* seeded fault: setUser(userData) is missing from register
RegisterStoredNoUser(p) ==
    /\ kind[p] = "register" /\ pc[p] = "setItem_ok"
    /\ token' = resp[p].token
    /\ Finish(p, "resolved", Success)
    /\ raced' = IF CheckInFlight THEN raced \cup {p} ELSE raced
    /\ UNCHANGED <<store, store0, launch, screens, user, isLoading, kind, caught, sent, pre, thrown>>

\* line 74 resolved: setToken(newToken); setUser(userData); return success
RegisterStored(p) ==
    /\ kind[p] = "register" /\ pc[p] = "setItem_ok"
    /\ token' = resp[p].token
    /\ user' = resp[p].user
    /\ Finish(p, "resolved", Success)
    /\ raced' = IF CheckInFlight THEN raced \cup {p} ELSE raced
    /\ UNCHANGED <<store, store0, launch, screens, isLoading, kind, caught, sent, pre, thrown>>

RegisterStoreFailed(p) ==
    /\ kind[p] = "register" /\ pc[p] = "setItem"
    /\ Finish(p, "resolved", Failure(OrElse(None, "Registration failed")))
    /\ thrown' = None
    /\ UNCHANGED <<store, store0, launch, raced, screens, session, kind, caught, sent, pre>>

\* ------------------------------------------------------------------ logout
\* logout() runs up to `await AsyncStorage.removeItem('authToken')`
LogoutCall(p) ==
    /\ pc[p] = "idle"
    /\ kind' = [kind EXCEPT ![p] = "logout"]
    /\ pc' = [pc EXCEPT ![p] = "removeItem"]
    /\ UNCHANGED <<store, store0, launch, raced, screens, session, locals, settled, result, sent, thrown>>
    /\ pre' = <<user, token, isLoading, store>>

\* seeded fault: the state is cleared only while the store is still empty, so
\* a login that wrote its token in between keeps its session
LogoutRemovedUnlessStored(p) ==
    /\ pc[p] = "removeItem_ok"
    /\ token' = IF store = None THEN None ELSE token
    /\ user' = IF store = None THEN None ELSE user
    /\ Finish(p, "resolved", NoResult)
    /\ UNCHANGED <<store, store0, launch, raced, screens, isLoading, kind, caught, sent, pre, thrown>>

\* line 86 resolved: setToken(null); setUser(null)
LogoutRemoved(p) ==
    /\ pc[p] = "removeItem_ok"
    /\ token' = None
    /\ user' = None
    /\ Finish(p, "resolved", NoResult)
    /\ UNCHANGED <<store, store0, launch, raced, screens, isLoading, kind, caught, sent, pre, thrown>>

\* line 86 rejected: logout has no try block, the error leaves the function
\* before lines 87-88 run
LogoutRemoveFailed(p) ==
    /\ pc[p] = "removeItem"
    /\ Finish(p, "rejected", NoResult)
    /\ UNCHANGED <<store, store0, launch, raced, screens, session, kind, caught, sent, pre, thrown>>

\* ------------------------------------------- menu, subscription, wallet, driver
\* A screen calls one of the other call groups: the request waits in the
\* interceptor's storage read.
ApiCall(p, group) ==
    /\ pc[p] = "idle"
    /\ kind' = [kind EXCEPT ![p] = group]
    /\ pc' = [pc EXCEPT ![p] = "i_getItem"]
    /\ UNCHANGED <<store, store0, launch, raced, screens, session, locals, settled, result, sent, thrown>>
    /\ pre' = <<user, token, isLoading, store>>

\* the response is handed to the calling screen
ApiResponse(p) ==
    /\ kind[p] \in Groups /\ pc[p] = "http"
    /\ Finish(p, "resolved", NoResult)
    /\ UNCHANGED <<store, store0, launch, raced, screens, session, kind, caught, sent, pre, thrown>>

\* seeded fault: a response interceptor drops the stored token on a 401
ApiFailedDropsToken(p, status) ==
    /\ kind[p] \in Groups /\ pc[p] \in {"i_getItem", "http"}
    /\ pc[p] = "i_getItem" => status = None
    /\ store' = IF status = "401" THEN None ELSE store
    /\ Finish(p, "rejected", Failure(status))
    /\ UNCHANGED <<store0, launch, raced, screens, session, kind, caught, sent, pre, thrown>>

\* the interceptor's storage read failed (no response), or the request failed
\* with `status`: api.ts has no response interceptor, the error goes to the
\* calling screen as it is
ApiFailed(p, status) ==
    /\ kind[p] \in Groups /\ pc[p] \in {"i_getItem", "http"}
    /\ pc[p] = "i_getItem" => status = None
    /\ Finish(p, "rejected", Failure(status))
    /\ UNCHANGED <<store, store0, launch, raced, screens, session, kind, caught, sent, pre, thrown>>

ApiStep(p) ==
    \/ ApiResponse(p)
    \/ \E status \in Statuses : ApiFailed(p, status)

\* ------------------------------------------------------------ specifications
\* What the event loop runs next for a function that has been called.
Step(p) ==
    \/ AsyncStorageGetItem(p)
    \/ AsyncStorageSetItem(p)
    \/ AsyncStorageRemoveItem(p)
    \/ Interceptor(p)
    \/ \E data \in Payloads : LoginResponse(p, data)
    \/ LoginMalformed(p)
    \/ \E detail \in Details : LoginFailed(p, detail)
    \/ LoginStored(p)
    \/ LoginStoreFailed(p)
    \/ \E data \in Payloads : RegisterResponse(p, data)
    \/ RegisterMalformed(p)
    \/ \E detail \in Details : RegisterFailed(p, detail)
    \/ RegisterStored(p)
    \/ RegisterStoreFailed(p)
    \/ LogoutRemoved(p)
    \/ LogoutRemoveFailed(p)

HydrateStep ==
    \/ LoadStoredAuthGotItem
    \/ LoadStoredAuthGetItemFailed
    \/ \E u \in Users : GetMeResponse(u)
    \/ LoadStoredAuthGotMe
    \/ LoadStoredAuthGetMeFailed
    \/ LoadStoredAuthRemoved
    \/ LoadStoredAuthRemoveFailed

Call(p) ==
    \/ LoginCall(p)
    \/ \E data \in Datas : RegisterCall(p, data) /\ UNCHANGED reg
    \/ LogoutCall(p)

\* calls are numbered in the order they are made
NextCall(p) == pc[p] = "idle" /\ \A q \in Ops : q < p => pc[q] # "idle"

\* no function is suspended at an await
Quiescent == \A p \in Procs : pc[p] \in {"idle", "done"}

\* Any interleaving: the provider has no mutual exclusion between its
\* operations, and a call may be made while others are in flight.
Next ==
    \/ HydrateStep
    \/ \E p \in Procs : Step(p)
    \/ \E p \in Ops : NextCall(p) /\ Call(p)

Spec == Init /\ [][Next]_vars

\* One operation at a time: a call is made only when every earlier function,
\* hydration included, has returned.
SeqNext ==
    \/ HydrateStep
    \/ \E p \in Procs : Step(p)
    \/ \E p \in Ops : NextCall(p) /\ Quiescent /\ Call(p)
    \/ \E p \in Ops : ApiStep(p)
    \/ \E p \in Ops : \E group \in Groups : NextCall(p) /\ Quiescent /\ ApiCall(p, group)

SeqSpec == Init /\ [][SeqNext]_vars

\* Overlapping calls: the screens that call login, register and logout are
\* reached once isLoading is false, and nothing orders one call after another's
\* completion.
RaceNext ==
    \/ HydrateStep
    \/ \E p \in Procs : Step(p)
    \/ \E p \in Ops : NextCall(p) /\ pc[Hydrate] = "done" /\ Call(p)

RaceSpec == Init /\ [][RaceNext]_vars

\* Calls during hydration: the provider hands login, register and logout to
\* its consumers from the first render, whatever isLoading is; the calls
\* themselves come one at a time.
EarlyNext ==
    \/ HydrateStep
    \/ \E p \in Procs : Step(p)
    \/ \E p \in Ops : NextCall(p) /\ (\A q \in Ops : pc[q] \in {"idle", "done"}) /\ Call(p)

EarlySpec == Init /\ [][EarlyNext]_vars

\* Hydration's progress: the storage and HTTP calls it awaits settle, and the
\* event loop runs the continuation that is ready.
HydrationProgress == HydrateStep \/ Step(Hydrate)

\* Sequential operations, with every call hydration awaits eventually settling.
LiveSpec == Init /\ [][SeqNext]_vars /\ WF_vars(HydrationProgress)

\* ------------------------------------------------------ app/index.tsx (Index)
\* where the effect of the entry screen sends a session
Redirect(u) ==
    IF u # None
      THEN IF RoleOf(u) = "driver" THEN "/(driver)" ELSE "/(customer)"
      ELSE "/(auth)/login"

\* seeded fault: the effect does not wait for isLoading to become false
IndexEffectWhileLoading ==
    /\ route = None
    /\ route' = Redirect(user)
    /\ UNCHANGED <<provider, views>>

\* The effect on [isLoading, user]: while isLoading it does nothing; after
\* that router.replace takes the entry screen off the stack.
IndexEffect ==
    /\ route = None
    /\ ~isLoading
    /\ route' = Redirect(user)
    /\ UNCHANGED <<provider, views>>

\* The application as it starts: the screens that call login, register and
\* logout are reached through the entry screen's redirect, one call at a time.
IndexNext ==
    \/ HydrateStep
    \/ \E p \in Procs : Step(p)
    \/ IndexEffect
    \/ \E p \in Ops : NextCall(p) /\ Quiescent /\ route # None /\ Call(p)

IndexSpec == Init /\ [][IndexNext]_vars


\* ------------------------------------------------- the application restarted
\* The application is closed and started again: AsyncStorage keeps its value,
\* the provider is constructed anew and its mount effect runs loadStoredAuth.
\* pre keeps the session the closed application held.
Relaunch ==
    /\ Quiescent /\ pc[Hydrate] = "done"
    /\ launch < MaxLaunches
    /\ launch' = launch + 1
    /\ store0' = store
    /\ user' = None /\ token' = None /\ isLoading' = TRUE
    /\ pc' = [pc EXCEPT ![Hydrate] = "h_getItem"]
    /\ settled' = [settled EXCEPT ![Hydrate] = "pending"]
    /\ caught' = None
    /\ route' = None
    /\ raced' = {}
    /\ pre' = <<user, token, isLoading, store>>
    /\ UNCHANGED <<store, kind, val, body, arg, resp, result, sent, thrown, views>>

\* The remote system answers GET /auth/me with the owner of the bearer token.
GetMeOwner ==
    \E t \in Tokens :
        /\ pc[Hydrate] = "http"
        /\ sent[Len(sent)].auth = Bearer(t)
        /\ GetMeResponse(Owner(t))

\* The remote system answers a login or a register with a token and its owner.
LoginOwner(p) == \E t \in Tokens : LoginResponse(p, [token |-> t, user |-> Owner(t)])
RegisterOwner(p) == \E t \in Tokens : RegisterResponse(p, [token |-> t, user |-> Owner(t)])

\* The application over several launches, one operation at a time, against a
\* remote system in which every token has one owner.
RelaunchNext ==
    \/ Relaunch
    \/ LoadStoredAuthGotItem
    \/ LoadStoredAuthGetItemFailed
    \/ GetMeOwner
    \/ LoadStoredAuthGotMe
    \/ LoadStoredAuthGetMeFailed
    \/ LoadStoredAuthRemoved
    \/ LoadStoredAuthRemoveFailed
    \/ \E p \in Procs : AsyncStorageGetItem(p)
    \/ \E p \in Procs : AsyncStorageSetItem(p)
    \/ \E p \in Procs : AsyncStorageRemoveItem(p)
    \/ \E p \in Procs : Interceptor(p)
    \/ \E p \in Ops : LoginOwner(p)
    \/ \E p \in Ops : LoginMalformed(p)
    \/ \E p \in Ops : \E detail \in Details : LoginFailed(p, detail)
    \/ \E p \in Ops : LoginStored(p)
    \/ \E p \in Ops : LoginStoreFailed(p)
    \/ \E p \in Ops : RegisterOwner(p)
    \/ \E p \in Ops : RegisterMalformed(p)
    \/ \E p \in Ops : \E detail \in Details : RegisterFailed(p, detail)
    \/ \E p \in Ops : RegisterStored(p)
    \/ \E p \in Ops : RegisterStoreFailed(p)
    \/ \E p \in Ops : LogoutRemoved(p)
    \/ \E p \in Ops : LogoutRemoveFailed(p)
    \/ \E p \in Ops : NextCall(p) /\ Quiescent /\ Call(p)

RelaunchSpec == Init /\ [][RelaunchNext]_vars


\* ----------------------------------------- app/(driver)/index.tsx (deliveries)
\* The screen's requests go through the interceptor modelled above, which
\* touches no state of the screen; here a request is pending until the remote
\* system's answer, or the failure, reaches the awaiting function.
Pending(reqs) == {k \in 1..Len(reqs) : reqs[k].status = "pending"}

\* fetchDeliveries() is called: the request is made
FetchDeliveries(fetches) == Append(fetches, [status |-> "pending", data |-> <<>>])

\* the mount effect
DriverMount ==
    /\ dfetch = <<>>
    /\ dfetch' = FetchDeliveries(dfetch)
    /\ UNCHANGED <<notDriver, alerts, driver, dupdate>>

\* pull to refresh; the list is on screen once isLoading is false
OnRefresh ==
    /\ ~driver.isLoading /\ ~driver.refreshing
    /\ Len(dfetch) + Cardinality(Pending(dupdate)) < MaxFetches
    /\ driver' = [driver EXCEPT !.refreshing = TRUE]
    /\ dfetch' = FetchDeliveries(dfetch)
    /\ UNCHANGED <<notDriver, alerts, dupdate>>

\* line 52: setDeliveries(response.data.deliveries || []), then finally
FetchDeliveriesResponse(k, list) ==
    /\ k \in Pending(dfetch)
    /\ dfetch' = [dfetch EXCEPT ![k] = [status |-> "ok", data |-> list]]
    /\ driver' = [driver EXCEPT !.deliveries = list,
                                !.isLoading = FALSE, !.refreshing = FALSE]
    /\ UNCHANGED <<notDriver, alerts, dupdate>>

\* catch: console.error, then finally
FetchDeliveriesFailed(k) ==
    /\ k \in Pending(dfetch)
    /\ dfetch' = [dfetch EXCEPT ![k].status = "failed"]
    /\ driver' = [driver EXCEPT !.isLoading = FALSE, !.refreshing = FALSE]
    /\ UNCHANGED <<notDriver, alerts, dupdate>>

\* The Confirm button of the prompt that a pending delivery's button opened:
\* setUpdatingId(deliveryId), then the PUT.
HandleStatusUpdate(id, status) ==
    /\ ~driver.isLoading
    /\ \E i \in 1..Len(driver.deliveries) : driver.deliveries[i] = Delivery(id, "pending")
    /\ driver.updatingId # id
    /\ Len(dupdate) < MaxUpdates
    /\ Len(dfetch) + Cardinality(Pending(dupdate)) < MaxFetches
    /\ driver' = [driver EXCEPT !.updatingId = id]
    /\ dupdate' = Append(dupdate, [id |-> id, to |-> status, status |-> "pending",
                                  detail |-> None])
    /\ UNCHANGED <<notDriver, alerts, dfetch>>

\* seeded fault: setUpdatingId(null) sits at the end of the try block instead
\* of in finally
UpdateStatusFailedKeepsSpinner(j, detail) ==
    /\ j \in Pending(dupdate)
    /\ dupdate' = [dupdate EXCEPT ![j].status = "failed", ![j].detail = detail]
    /\ alerts' = Append(alerts, [title |-> "Error",
                                  message |-> OrElse(detail, "Failed to update status")])
    /\ UNCHANGED <<notDriver, driver, dfetch>>

\* the PUT resolved: the success alert, fetchDeliveries(), then finally
UpdateStatusResponse(j) ==
    /\ j \in Pending(dupdate)
    /\ dupdate' = [dupdate EXCEPT ![j].status = "ok"]
    /\ alerts' = Append(alerts, [title |-> "Success",
                                  message |-> "Delivery marked as " \o dupdate[j].to])
    /\ dfetch' = FetchDeliveries(dfetch)
    /\ driver' = [driver EXCEPT !.updatingId = None]
    /\ UNCHANGED <<notDriver>>

\* the PUT rejected: the error alert, then finally
UpdateStatusFailed(j, detail) ==
    /\ j \in Pending(dupdate)
    /\ dupdate' = [dupdate EXCEPT ![j].status = "failed", ![j].detail = detail]
    /\ alerts' = Append(alerts, [title |-> "Error",
                                  message |-> OrElse(detail, "Failed to update status")])
    /\ driver' = [driver EXCEPT !.updatingId = None]
    /\ UNCHANGED <<notDriver, dfetch>>

DriverNext ==
    \/ DriverMount
    \/ OnRefresh
    \/ \E k \in 1..MaxFetches : \E list \in DeliveryLists : FetchDeliveriesResponse(k, list)
    \/ \E k \in 1..MaxFetches : FetchDeliveriesFailed(k)
    \/ \E id \in DeliveryIds : \E status \in {"delivered", "failed"} : HandleStatusUpdate(id, status)
    \/ \E j \in 1..MaxUpdates : UpdateStatusResponse(j)
    \/ \E j \in 1..MaxUpdates : \E detail \in Details : UpdateStatusFailed(j, detail)

DriverSpec == Init /\ [][DriverNext]_vars


\* ------------------------------------------- SubscriptionScreen (part_001)
\* fetchSubscription() is called: the request is made
FetchSubscription(fetches) == Append(fetches, [status |-> "pending"])

\* the mount effect
SubscriptionMount ==
    /\ sfetch = <<>>
    /\ sfetch' = FetchSubscription(sfetch)
    /\ UNCHANGED <<notSub, alerts, sub, screate>>

\* pull to refresh; the content is on screen once isLoading is false
SubscriptionOnRefresh ==
    /\ ~sub.isLoading /\ ~sub.refreshing
    /\ Len(sfetch) + Cardinality(Pending(screate)) < MaxFetches
    /\ sub' = [sub EXCEPT !.refreshing = TRUE]
    /\ sfetch' = FetchSubscription(sfetch)
    /\ UNCHANGED <<notSub, alerts, screate>>

\* setSubscription(response.data), then finally
FetchSubscriptionResponse(k, plan) ==
    /\ k \in Pending(sfetch)
    /\ sfetch' = [sfetch EXCEPT ![k].status = "ok"]
    /\ sub' = [sub EXCEPT !.subscription = plan,
                          !.isLoading = FALSE, !.refreshing = FALSE]
    /\ UNCHANGED <<notSub, alerts, screate>>

\* catch (a 404 is not even logged), then finally
FetchSubscriptionFailed(k) ==
    /\ k \in Pending(sfetch)
    /\ sfetch' = [sfetch EXCEPT ![k].status = "failed"]
    /\ sub' = [sub EXCEPT !.isLoading = FALSE, !.refreshing = FALSE]
    /\ UNCHANGED <<notSub, alerts, screate>>

\* a plan card other than the current plan's is pressed
HandleSubscribe(plan) ==
    /\ ~sub.isLoading /\ ~sub.showModal
    /\ sub.subscription # plan
    /\ sub' = [sub EXCEPT !.selectedPlan = plan, !.showModal = TRUE]
    /\ UNCHANGED <<notSub, alerts, sfetch, screate>>

\* the address field of the modal is edited
SetAddress(address) ==
    /\ sub.showModal
    /\ sub.address # address
    /\ sub' = [sub EXCEPT !.address = address]
    /\ UNCHANGED <<notSub, alerts, sfetch, screate>>

\* the modal's close button
CloseModal ==
    /\ sub.showModal
    /\ sub' = [sub EXCEPT !.showModal = FALSE]
    /\ UNCHANGED <<notSub, alerts, sfetch, screate>>

\* seeded fault: the modal is closed in finally, on failure as on success
CreateSubscriptionFailedClosesModal(j, detail) ==
    /\ j \in Pending(screate)
    /\ screate' = [screate EXCEPT ![j].status = "failed", ![j].detail = detail]
    /\ alerts' = Append(alerts, [title |-> "Error",
                                 message |-> OrElse(detail, "Failed to create subscription")])
    /\ sub' = [sub EXCEPT !.showModal = FALSE, !.isSubmitting = FALSE]
    /\ UNCHANGED <<notSub, sfetch>>

\* The modal's confirm button, disabled while isSubmitting: the validation
\* alert, or setIsSubmitting(true) and the POST.
ConfirmSubscription ==
    /\ sub.showModal /\ ~sub.isSubmitting
    /\ IF ~Truthy(sub.selectedPlan) \/ ~Truthy(sub.address)
         THEN /\ Len(alerts) < MaxAlerts
              /\ alerts' = Append(alerts, [title |-> "Error",
                                           message |-> "Please enter your delivery address"])
              /\ UNCHANGED <<sub, screate>>
         ELSE /\ Len(screate) < MaxUpdates
              /\ Len(sfetch) < MaxFetches
              /\ sub' = [sub EXCEPT !.isSubmitting = TRUE]
              /\ screate' = Append(screate,
                                   [status |-> "pending", plan |-> sub.selectedPlan,
                                    delivery_address |-> sub.address, detail |-> None])
              /\ UNCHANGED alerts
    /\ UNCHANGED <<notSub, sfetch>>

\* the POST resolved: setShowModal(false), the success alert,
\* fetchSubscription(), then finally
CreateSubscriptionResponse(j) ==
    /\ j \in Pending(screate)
    /\ screate' = [screate EXCEPT ![j].status = "ok"]
    /\ alerts' = Append(alerts, [title |-> "Success",
                                 message |-> "Subscription created successfully!"])
    /\ sfetch' = FetchSubscription(sfetch)
    /\ sub' = [sub EXCEPT !.showModal = FALSE, !.isSubmitting = FALSE]
    /\ UNCHANGED notSub

\* the POST rejected: the error alert, then finally
CreateSubscriptionFailed(j, detail) ==
    /\ j \in Pending(screate)
    /\ screate' = [screate EXCEPT ![j].status = "failed", ![j].detail = detail]
    /\ alerts' = Append(alerts, [title |-> "Error",
                                 message |-> OrElse(detail, "Failed to create subscription")])
    /\ sub' = [sub EXCEPT !.isSubmitting = FALSE]
    /\ UNCHANGED <<notSub, sfetch>>

SubscriptionNext ==
    \/ SubscriptionMount
    \/ SubscriptionOnRefresh
    \/ \E k \in 1..MaxFetches : \E plan \in Plans \cup {None} : FetchSubscriptionResponse(k, plan)
    \/ \E k \in 1..MaxFetches : FetchSubscriptionFailed(k)
    \/ \E plan \in Plans : HandleSubscribe(plan)
    \/ \E address \in Addresses : SetAddress(address)
    \/ CloseModal
    \/ ConfirmSubscription
    \/ \E j \in 1..MaxUpdates : CreateSubscriptionResponse(j)
    \/ \E j \in 1..MaxUpdates : \E detail \in Details : CreateSubscriptionFailed(j, detail)

SubscriptionSpec == Init /\ [][SubscriptionNext]_vars


\* -------------------------------------------- CustomerDashboard (part_000)
\* weeklyMenu.find(item => item.date === today) || weeklyMenu[0] || null
TodayItem(weeklyMenu, today) ==
    IF \E i \in 1..Len(weeklyMenu) : weeklyMenu[i] = today THEN today
    ELSE IF Len(weeklyMenu) > 0 THEN weeklyMenu[1]
    ELSE None

\* fetchData() is called: both requests are made, Promise.all is awaited
FetchData(fetches) ==
    Append(fetches, [settled |-> FALSE, menu |-> "pending", sub |-> "pending",
                     menuData |-> <<>>, subData |-> None, today |-> None])

\* the mount effect
DashboardMount ==
    /\ hfetch = <<>>
    /\ hfetch' = FetchData(hfetch)
    /\ UNCHANGED <<notDash, dash>>

\* pull to refresh; the content is on screen once isLoading is false
DashboardOnRefresh ==
    /\ ~dash.isLoading /\ ~dash.refreshing
    /\ Len(hfetch) < MaxFetches
    /\ dash' = [dash EXCEPT !.refreshing = TRUE]
    /\ hfetch' = FetchData(hfetch)
    /\ UNCHANGED notDash

\* Promise.all resolved with [menuRes, subRes]: the rest of the try block,
\* then finally. subData is subRes?.data (None when subRes is null).
FetchDataResolved(d, weeklyMenu, subData, today) ==
    [d EXCEPT !.menu = weeklyMenu,
              !.todayMenu = TodayItem(weeklyMenu, today),
              !.subscription = IF Truthy(subData) THEN subData ELSE @,
              !.isLoading = FALSE, !.refreshing = FALSE]

\* seeded fault: getSubscription() has no .catch(() => null), its failure
\* rejects Promise.all
SubscriptionFailedRejects(k, today) ==
    /\ k \in 1..Len(hfetch) /\ hfetch[k].sub = "pending"
    /\ hfetch' = [hfetch EXCEPT ![k].sub = "failed", ![k].settled = TRUE]
    /\ dash' = IF hfetch[k].settled THEN dash
               ELSE [dash EXCEPT !.isLoading = FALSE, !.refreshing = FALSE]
    /\ UNCHANGED notDash

\* the menu request resolved; Promise.all resolves when the subscription
\* request has settled too
MenuResponse(k, weeklyMenu, today) ==
    /\ k \in 1..Len(hfetch) /\ hfetch[k].menu = "pending"
    /\ LET done == hfetch[k].sub # "pending" IN
       /\ hfetch' = [hfetch EXCEPT ![k].menu = "ok", ![k].menuData = weeklyMenu,
                                   ![k].today = IF done THEN today ELSE None,
                                   ![k].settled = done]
       /\ dash' = IF done
                    THEN FetchDataResolved(dash, weeklyMenu, hfetch[k].subData, today)
                    ELSE dash
    /\ UNCHANGED notDash

\* the menu request rejected: Promise.all rejects at once; catch, then finally
MenuFailed(k) ==
    /\ k \in 1..Len(hfetch) /\ hfetch[k].menu = "pending"
    /\ hfetch' = [hfetch EXCEPT ![k].menu = "failed", ![k].settled = TRUE]
    /\ dash' = [dash EXCEPT !.isLoading = FALSE, !.refreshing = FALSE]
    /\ UNCHANGED notDash

\* the subscription request resolved with response.data = data
SubscriptionResponse(k, data, today) ==
    /\ k \in 1..Len(hfetch) /\ hfetch[k].sub = "pending"
    /\ LET done == hfetch[k].menu = "ok" IN
       /\ hfetch' = [hfetch EXCEPT ![k].sub = "ok", ![k].subData = data,
                                   ![k].today = IF done THEN today ELSE None,
                                   ![k].settled = done \/ @]
       /\ dash' = IF done
                    THEN FetchDataResolved(dash, hfetch[k].menuData, data, today)
                    ELSE dash
    /\ UNCHANGED notDash

\* the subscription request rejected: .catch(() => null) turns it into null
SubscriptionFailed(k, today) ==
    /\ k \in 1..Len(hfetch) /\ hfetch[k].sub = "pending"
    /\ LET done == hfetch[k].menu = "ok" IN
       /\ hfetch' = [hfetch EXCEPT ![k].sub = "failed",
                                   ![k].today = IF done THEN today ELSE None,
                                   ![k].settled = done \/ @]
       /\ dash' = IF done
                    THEN FetchDataResolved(dash, hfetch[k].menuData, None, today)
                    ELSE dash
    /\ UNCHANGED notDash

DashboardNext ==
    \/ DashboardMount
    \/ DashboardOnRefresh
    \/ \E k \in 1..MaxFetches : \E weeklyMenu \in WeeklyMenus : \E today \in Dates :
           MenuResponse(k, weeklyMenu, today)
    \/ \E k \in 1..MaxFetches : MenuFailed(k)
    \/ \E k \in 1..MaxFetches : \E data \in Plans \cup {None} : \E today \in Dates :
           SubscriptionResponse(k, data, today)
    \/ \E k \in 1..MaxFetches : \E today \in Dates : SubscriptionFailed(k, today)

DashboardSpec == Init /\ [][DashboardNext]_vars


\* --------------------------------------------------- RegisterScreen (sign up)
\* The screen is pushed from the login screen, which the entry screen
\* redirects to when no session was restored. One mounted screen is modelled.
RegisterScreenShown == route = "/(auth)/login"

\* an onChangeText / onPress of one of the form's controls
SetField(field, value) ==
    /\ RegisterScreenShown
    /\ reg[field] # value
    /\ reg' = [reg EXCEPT ![field] = value]
    /\ UNCHANGED notReg

\* the three tests handleRegister makes before it calls register
FormError(f) ==
    IF f.name = "" \/ f.email = "" \/ f.password = "" \/ f.confirmPassword = ""
      THEN "Please fill in all required fields"
      ELSE IF f.password # f.confirmPassword
             THEN "Passwords do not match"
             ELSE IF Len(f.password) < 6
                    THEN "Password must be at least 6 characters"
                    ELSE ""

\* the argument handleRegister passes to register
FormData(f) == [phone |-> IF f.phone = "" THEN None ELSE f.phone, role |-> f.role]

\* seeded fault: the button has no disabled={isLoading}
HandleRegisterAlwaysEnabled ==
    /\ RegisterScreenShown
    /\ IF FormError(reg) # ""
         THEN /\ reg' = [reg EXCEPT !.error = FormError(reg)]
              /\ UNCHANGED notReg
         ELSE \E p \in Ops :
                /\ NextCall(p)
                /\ RegisterCall(p, FormData(reg))
                /\ reg' = [reg EXCEPT !.isLoading = TRUE, !.error = "",
                                      !.awaiting = reg.awaiting \cup {p}]

\* A press of the button, which is disabled while isLoading: handleRegister
\* runs up to `await register(...)`, and register up to its own first await.
HandleRegister ==
    /\ RegisterScreenShown
    /\ ~reg.isLoading
    /\ IF FormError(reg) # ""
         THEN /\ reg' = [reg EXCEPT !.error = FormError(reg)]
              /\ UNCHANGED notReg
         ELSE \E p \in Ops :
                /\ NextCall(p)
                /\ RegisterCall(p, FormData(reg))
                /\ reg' = [reg EXCEPT !.isLoading = TRUE, !.error = "",
                                      !.awaiting = reg.awaiting \cup {p}]

\* register has returned: handleRegister resumes with its result
RegisterReturned(p) ==
    /\ p \in reg.awaiting
    /\ pc[p] = "done"
    /\ reg' = IF ~result[p].success
                THEN [reg EXCEPT !.error = OrElse(result[p].error, "Registration failed"),
                                 !.isLoading = FALSE,
                                 !.awaiting = reg.awaiting \ {p}]
                ELSE [reg EXCEPT !.awaiting = reg.awaiting \ {p}]
    /\ UNCHANGED notReg

\* The application from its start to the register screen, register being
\* called from that screen only; the role chips are left on 'customer'.
RegisterNext ==
    \/ HydrateStep
    \/ \E p \in Procs : AsyncStorageGetItem(p)
    \/ \E p \in Procs : AsyncStorageSetItem(p)
    \/ AsyncStorageRemoveItem(Hydrate)
    \/ \E p \in Procs : Interceptor(p)
    \/ IndexEffect
    \/ \E value \in Names : SetField("name", value)
    \/ \E value \in Emails : SetField("email", value)
    \/ \E value \in Phones \ {None} : SetField("phone", value)
    \/ \E value \in Passwords : SetField("password", value)
    \/ \E value \in Passwords : SetField("confirmPassword", value)
    \/ HandleRegister
    \/ \E p \in Ops : \E data \in Payloads : RegisterResponse(p, data)
    \/ \E p \in Ops : RegisterMalformed(p)
    \/ \E p \in Ops : \E detail \in Details : RegisterFailed(p, detail)
    \/ \E p \in Ops : RegisterStored(p)
    \/ \E p \in Ops : RegisterStoreFailed(p)
    \/ \E p \in Ops : RegisterReturned(p)

RegisterSpec == Init /\ [][RegisterNext]_vars


\* ------------------------------------------------------------------ claims
HydrationDone == pc[Hydrate] = "done"
NoCallYet == \A p \in Ops : pc[p] = "idle"
\* hydration has finished and nothing else has run since
HydrationJustDone == HydrationDone /\ NoCallYet
\* call p has returned and no later call has been made
LatestReturned(p) == pc[p] = "done" /\ \A q \in Ops : q > p => pc[q] = "idle"
SessionAndStore == <<user, token, isLoading, store>>

\* C1: a token is stored at start and GET /auth/me fails: when hydration
\* finishes the token is gone from the store and the in-memory token and user
\* are both absent.
C1_FailedHydrationClearsSession ==
    (store0 # None /\ caught = "getMe" /\ HydrationJustDone)
        => store = None /\ token = None /\ user = None

\* C2: whenever no Session Manager operation is in flight, the in-memory user
\* is present if and only if the in-memory token is present.
C2_UserIffToken ==
    Quiescent => (user # None <=> token # None)

\* C3: after any sequence of operations each run to completion, the in-memory
\* token equals the value stored under 'authToken'.
C3_TokenMatchesStore ==
    Quiescent => token = store

\* C4: a login that returns {success: false} leaves user, token, isLoading and
\* the persisted token exactly as they were when login was called.
C4_FailedLoginLeavesState ==
    \A p \in Ops :
        (kind[p] = "login" /\ LatestReturned(p) /\ ~result[p].success)
            => SessionAndStore = pre

C4_Witness ==
    \E p \in Ops :
        /\ kind[p] = "login" /\ LatestReturned(p) /\ ~result[p].success
        /\ result[p].error = "Invalid credentials"
        /\ user \in Users /\ token \in Tokens /\ store \in Tokens

\* C5: within one login the store is written only after the login request has
\* succeeded and before the in-memory token and user are set; when login
\* returns {success: true} the persisted token, the in-memory token and the
\* response's token are equal and the in-memory user is the response's user.
C5_LoginStoreThenState ==
    [][\A p \in Ops :
        (kind[p] = "login" /\ pc'[p] # pc[p]) =>
            /\ store' # store => pc'[p] = "setItem_ok"
            /\ pc'[p] = "setItem_ok" =>
                  /\ resp[p] \in Payloads
                  /\ sent # <<>> /\ sent[Len(sent)].path = "/auth/login"
                  /\ store' = resp[p].token
                  /\ <<user, token>>' = <<user, token>>
            /\ <<user, token>>' # <<user, token>> =>
                  pc[p] = "setItem_ok" /\ store = resp[p].token
            /\ (pc'[p] = "done" /\ result'[p].success) =>
                  /\ store' = resp[p].token
                  /\ token' = resp[p].token
                  /\ user' = resp[p].user
    ]_vars

C5_Witness ==
    \E p \in Ops :
        /\ kind[p] = "login" /\ LatestReturned(p) /\ result[p].success
        /\ pre[2] \in Tokens /\ token \in Tokens /\ token # pre[2]
        /\ store = token

\* C6: no token is stored at start: hydration finishes with user and token
\* absent and isLoading false, and GET /auth/me is never requested.
C6_NoTokenNoIdentityCheck ==
    store0 = None =>
        /\ \A i \in 1..Len(sent) : sent[i].path # "/auth/me"
        /\ HydrationJustDone => user = None /\ token = None /\ isLoading = FALSE

C6_Witness ==
    store0 = None /\ HydrationJustDone /\ caught = None

\* C7: token T is stored at start and GET /auth/me answers with user U:
\* hydration finishes with user U, token T, isLoading false, and T still stored.
C7_HydrationRestoresSession ==
    [][(pc[Hydrate] = "http_ok" /\ pc'[Hydrate] = "done") =>
          /\ user' = resp[Hydrate].user
          /\ token' = store0
          /\ isLoading' = FALSE
          /\ store' = store0
          /\ settled'[Hydrate] = "resolved"
    ]_vars

C7_Witness ==
    /\ HydrationJustDone /\ store0 = "t1" /\ caught = None
    /\ user = "u2" /\ token = "t1" /\ store = "t1" /\ isLoading = FALSE

\* C8: isLoading starts true, and once it is false nothing sets it back.
C8_IsLoadingMonotone ==
    /\ isLoading = TRUE
    /\ [][isLoading = FALSE => isLoading' = FALSE]_vars

C8_Witness ==
    /\ isLoading = FALSE
    /\ \E p \in Ops : kind[p] = "login" /\ pc[p] = "done" /\ result[p].success
    /\ \E p \in Ops : kind[p] = "logout" /\ pc[p] = "done"

\* C9: hydration terminates and isLoading becomes false, whichever of its
\* storage and HTTP calls fail.
C9_HydrationTerminates ==
    <>[](HydrationDone /\ isLoading = FALSE)

\* the path on which the storage delete fails inside the failure handler
C9_Witness ==
    /\ HydrationDone /\ isLoading = FALSE
    /\ caught = "getMe" /\ settled[Hydrate] = "rejected"

\* C10: loadStoredAuth never rejects, whichever of its calls fail.
C10_HydrationNeverRejects ==
    settled[Hydrate] # "rejected"

\* C11: once logout has finished, however the storage delete turned out, the
\* persisted token, the in-memory token and the in-memory user are all absent.
C11_LogoutClearsEverything ==
    \A p \in Ops :
        (kind[p] = "logout" /\ LatestReturned(p))
            => store = None /\ token = None /\ user = None

C13_NoHeaderAfterLogout ==
    \A p, q \in Ops :
        (q = p + 1 /\ kind[p] = "logout" /\ pc[p] = "done" /\ pc[q] = "http")
            => sent[Len(sent)].auth = None

\* C14: after login or register has returned {success: true} with token T, the
\* next API Client call carries 'Authorization: Bearer T', whatever was stored
\* before.
C14_HeaderAfterLogin ==
    \A p, q \in Ops :
        (/\ q = p + 1
         /\ kind[p] \in {"login", "register"} /\ pc[p] = "done" /\ result[p].success
         /\ pc[q] = "http")
            => token \in Tokens /\ sent[Len(sent)].auth = "Bearer " \o token

\* hydration restored the session of t1, login then returned t2, and the wallet
\* request that follows carries t2
C14_Witness ==
    /\ store0 = "t1" /\ caught = None /\ Len(sent) = 3
    /\ sent[1].auth = "Bearer t1" /\ sent[2].auth = "Bearer t1"
    /\ kind[1] = "login" /\ pc[1] = "done" /\ result[1].success
    /\ kind[2] = "wallet" /\ pc[2] = "http"
    /\ token = "t2" /\ sent[3].auth = "Bearer t2" /\ sent[3].path = "/wallet"

\* C15: no API Client request, succeeding or failing (a 401 included), changes
\* the persisted token or the in-memory session; the persisted token changes
\* only in a step of hydrate, login, register or logout.
C15_ApiClientReadOnly ==
    [][/\ \A p \in Ops :
            (kind'[p] \in Groups /\ pc'[p] # pc[p]) => SessionAndStore' = SessionAndStore
       /\ \A p \in Procs :
            (pc[p] \in {"i_getItem", "i_getItem_ok", "http"} /\ pc'[p] # pc[p])
                => SessionAndStore' = SessionAndStore
       /\ store' # store =>
            \E p \in Procs :
                /\ kind[p] \in {"hydrate", "login", "register", "logout"}
                /\ pc'[p] # pc[p]
    ]_vars

\* a request of another call group was answered 401 while a session is held
C15_Witness ==
    \E p \in Ops :
        /\ kind[p] \in Groups /\ pc[p] = "done"
        /\ settled[p] = "rejected" /\ result[p].error = "401"
        /\ store \in Tokens /\ token = store /\ user \in Users

\* C18: a failed login returns the error payload's detail when there is one
\* and it is not empty, and 'Login failed' otherwise; a failed register returns
\* the detail, and 'Registration failed' otherwise.
C18_ErrorMessage ==
    \A p \in Ops :
        (kind[p] \in {"login", "register"} /\ LatestReturned(p) /\ ~result[p].success)
            => result[p].error =
                  IF thrown # None /\ thrown # "" THEN thrown
                  ELSE IF kind[p] = "login" THEN "Login failed"
                  ELSE "Registration failed"

\* a login rejected with {detail: "Invalid credentials"}, then a register that
\* failed with an empty detail
C18_Witness ==
    /\ kind[1] = "login" /\ pc[1] = "done"
    /\ result[1] = [success |-> FALSE, error |-> "Invalid credentials"]
    /\ kind[2] = "register" /\ pc[2] = "done" /\ thrown = ""
    /\ result[2] = [success |-> FALSE, error |-> "Registration failed"]

\* C19: login and register never reject; whatever happened (no response, an
\* error response, a success response without a body, a storage write that
\* failed) they resolve with {success: true} or with {success: false, error}
\* where error is a non-empty message.
C19_LoginRegisterNeverReject ==
    \A p \in Ops :
        (kind[p] \in {"login", "register"} /\ pc[p] = "done")
            => /\ settled[p] = "resolved"
               /\ \/ result[p] = Success
                  \/ result[p].success = FALSE /\ Truthy(result[p].error)

\* a login whose storage write failed, then a register that succeeded: the
\* first resolved with the failure shape, the second with the success shape
C19_Witness ==
    /\ kind[1] = "login" /\ pc[1] = "done" /\ settled[1] = "resolved"
    /\ result[1] = Failure("Login failed") /\ Len(sent) >= 2
    /\ sent[Len(sent) - 1].path = "/auth/login"
    /\ kind[2] = "register" /\ pc[2] = "done" /\ result[2] = Success
    /\ store \in Tokens /\ token = store

\* C20: the body of the POST /auth/register request carries the placeholder
\* '0000000000' as phone when the caller's phone is omitted or empty, the
\* caller's phone when it is not empty, and the caller's other fields as they
\* came.
C20_PhonePlaceholder ==
    \A p \in Ops :
        (kind[p] = "register" /\ pc[p] = "http")
            => /\ sent[Len(sent)].path = "/auth/register"
               /\ sent[Len(sent)].phone =
                      IF arg[p].phone \in {None, ""} THEN "0000000000" ELSE arg[p].phone
               /\ sent[Len(sent)].phone \notin {None, ""}
               /\ sent[Len(sent)].role = arg[p].role

\* two registrations were posted, the first called with a phone, the second
\* with an empty one
C20_Witness ==
    /\ kind[1] = "register" /\ pc[1] = "done" /\ kind[2] = "register" /\ pc[2] = "http"
    /\ arg[2] = [phone |-> "", role |-> "driver"]
    /\ Len(sent) >= 2
    /\ sent[Len(sent)].phone = "0000000000" /\ sent[Len(sent)].role = "driver"
    /\ sent[Len(sent) - 1].path = "/auth/register"
    /\ sent[Len(sent) - 1].phone = "5551234567"

\* C16: a login and a logout are in flight together. Whichever of them
\* completes when the other has already completed decides the in-memory state:
\* a login that completes last with success leaves the token and user of its
\* response, a logout that completes last with its state update leaves both
\* absent.
C16_LastCompletionWins ==
    [][\A p, q \in Ops :
          (kind[p] = "login" /\ kind[q] = "logout") =>
              /\ (pc[q] = "done" /\ pc[p] = "setItem_ok" /\ pc'[p] = "done")
                     => token' = resp[p].token /\ user' = resp[p].user
              /\ (pc[p] = "done" /\ pc[q] = "removeItem_ok" /\ pc'[q] = "done")
                     => token' = None /\ user' = None ]_vars

\* logout was called first and completed last: login's token is in the store,
\* written after logout's removal, and the in-memory session is empty
C16_Witness ==
    /\ kind[1] = "logout" /\ pc[1] = "done" /\ settled[1] = "resolved"
    /\ kind[2] = "login" /\ pc[2] = "done" /\ result[2] = Success
    /\ store \in Tokens /\ token = None /\ user = None

\* C24: the entry screen navigates only once isLoading is false, and then to
\* the driver area when the user has role 'driver', to the customer area when
\* the user has another role, to the login screen when there is no user; after
\* a failed hydration it is the login screen.
C24_EntryRedirect ==
    [][route' # route =>
          /\ ~isLoading /\ route = None
          /\ route' = "/(driver)" <=> (user # None /\ RoleOf(user) = "driver")
          /\ route' = "/(customer)" <=> (user # None /\ RoleOf(user) # "driver")
          /\ route' = "/(auth)/login" <=> user = None
          /\ caught # None => route' = "/(auth)/login" ]_vars

\* a hydration that restored a driver and was sent to the driver area; the
\* driver then logged out
C24_Witness ==
    /\ route = "/(driver)" /\ store0 \in Tokens /\ caught = None
    /\ kind[1] = "logout" /\ pc[1] = "done" /\ user = None

\* C21: register does to the state what login does. When it returns
\* {success: true} the store and the in-memory token hold the token of the
\* response and the in-memory user is the user of the response, whatever the
\* phone of the call was; when it returns {success: false} the store, user,
\* token and isLoading are as they were when it was called.
C21_RegisterLikeLogin ==
    [][\A p \in Ops :
          (kind[p] = "register" /\ pc[p] # "done" /\ pc'[p] = "done") =>
              IF result'[p].success
                THEN /\ store' = resp[p].token /\ token' = resp[p].token
                     /\ user' = resp[p].user /\ isLoading' = pre[3]
                ELSE SessionAndStore' = pre ]_vars

\* a registration without a phone succeeded on top of a restored session,
\* then one with a phone failed
C21_Witness ==
    /\ store0 = "t1" /\ caught = None
    /\ kind[1] = "register" /\ pc[1] = "done" /\ result[1] = Success
    /\ kind[2] = "register" /\ pc[2] = "done" /\ ~result[2].success
    /\ Len(sent) = 3 /\ sent[2].phone = "0000000000" /\ sent[3].phone = "5551234567"
    /\ store = "t2" /\ token = "t2" /\ user = "u2"

C23_IdentityAfterLogin ==
    [][\A p \in Ops :
          /\ (kind[p] = "login" /\ pc[p] = "setItem_ok" /\ pc'[p] = "done")
                => token' = store /\ user' = Owner(store)
          /\ (kind[p] = "login" /\ LatestReturned(p) /\ result[p].success
                /\ LatestReturned(p)' /\ store' # store)
                => store' = None
          /\ (/\ kind[p] = "login" /\ LatestReturned(p) /\ result[p].success
              /\ pc[Hydrate] \in {"http", "http_ok"}
              /\ Len(sent) >= 2
              /\ sent[Len(sent)].path = "/auth/me"
              /\ sent[Len(sent) - 1].path = "/auth/login")
                => /\ store0 \in Tokens
                   /\ sent[Len(sent)].auth = Bearer(store0)
                   /\ pc[Hydrate] = "http_ok" => resp[Hydrate].user = Owner(store0)
                   /\ (pc'[Hydrate] = "done" /\ caught' = None)
                          => user' = Owner(store0) /\ token' = store0 ]_vars

\* the first launch found no token, a login got t2 / u2, and the second
\* launch's hydration restored u2
C23_Witness ==
    /\ launch = 2 /\ store0 = "t2" /\ pre = <<"u2", "t2", FALSE, "t2">>
    /\ kind[1] = "login" /\ pc[1] = "done" /\ result[1] = Success /\ pc[2] = "idle"
    /\ pc[Hydrate] = "done" /\ caught = None /\ user = "u2" /\ token = "t2"
    /\ Len(sent) = 2 /\ sent[1].auth = None /\ sent[2].auth = "Bearer t2"

\* C28: a login or register returned success while loadStoredAuth was waiting
\* for GET /auth/me, and that request then failed: when hydration has finished
\* the store still holds the token of that login or register, and the
\* in-memory token and user are still its token and user.
C28_FailedHydrationKeepsNewerSession ==
    \A p \in raced :
        (LatestReturned(p) /\ pc[Hydrate] = "done" /\ caught = "getMe")
            => store \in Tokens /\ token = store /\ user \in Users

\* C25: confirming a status update sets updatingId to the delivery's id as
\* the PUT is made; when the PUT settles updatingId is null again. A PUT that
\* succeeded is followed by a new fetchDeliveries call, and nothing else than
\* the mount, a refresh and a succeeded PUT starts one; a PUT that failed
\* starts none, leaves the deliveries as they are and shows the alert 'Error'
\* with the server's detail, or with 'Failed to update status' without one.
C25_StatusUpdate ==
    [][/\ Len(dupdate') > Len(dupdate) =>
              /\ dupdate'[Len(dupdate')].status = "pending"
              /\ driver'.updatingId = dupdate'[Len(dupdate')].id
       /\ \A j \in 1..Len(dupdate) :
              (dupdate[j].status = "pending" /\ dupdate'[j].status # "pending") =>
                  /\ driver'.updatingId = None
                  /\ dupdate'[j].status = "ok" => Len(dfetch') = Len(dfetch) + 1
                  /\ dupdate'[j].status = "failed" =>
                        /\ dfetch' = dfetch
                        /\ driver'.deliveries = driver.deliveries
                        /\ alerts' = Append(alerts,
                              [title |-> "Error",
                               message |-> IF dupdate'[j].detail \notin {None, ""}
                                             THEN dupdate'[j].detail
                                             ELSE "Failed to update status"])
       /\ Len(dfetch') > Len(dfetch) =>
              \/ dfetch = <<>>
              \/ ~driver.refreshing /\ driver'.refreshing
              \/ \E j \in 1..Len(dupdate) :
                     dupdate[j].status = "pending" /\ dupdate'[j].status = "ok" ]_vars

\* d1 was marked delivered and the list fetched again; the update of d2
\* failed without a detail while that fetch was still pending
C25_Witness ==
    /\ Len(dupdate) = 2 /\ dupdate[1].status = "ok" /\ dupdate[2].status = "failed"
    /\ dupdate[2].id = "d2" /\ dupdate[2].detail = None
    /\ Len(dfetch) = 2 /\ dfetch[2].status = "pending"
    /\ driver.updatingId = None
    /\ Len(alerts) = 2
    /\ alerts[2] = [title |-> "Error", message |-> "Failed to update status"]

\* C27: when every fetchDeliveries call has settled and the one made last got
\* a response, the deliveries on the screen are that response, whatever the
\* order in which the responses of overlapping calls arrived.
C27_LastFetchWins ==
    (/\ Len(dfetch) >= 2 /\ Pending(dfetch) = {}
     /\ dfetch[Len(dfetch)].status = "ok")
        => driver.deliveries = dfetch[Len(dfetch)].data

\* C26: confirmSubscription sends no createSubscription request without a
\* selected plan or with an empty address. isSubmitting is true exactly while
\* a request is pending. A request that succeeds closes the modal and starts
\* a new fetchSubscription call; one that fails leaves the modal as it is,
\* starts no fetch and shows the alert 'Error'. Nothing else than the close
\* button and a succeeded request closes the modal.
C26_ConfirmSubscription ==
    [][/\ Len(screate') > Len(screate) =>
              /\ sub.selectedPlan \in Plans /\ sub.address # ""
              /\ screate'[Len(screate')].plan = sub.selectedPlan
              /\ screate'[Len(screate')].delivery_address = sub.address
       /\ sub'.isSubmitting <=> Pending(screate') # {}
       /\ \A j \in 1..Len(screate) :
              (screate[j].status = "pending" /\ screate'[j].status # "pending") =>
                  /\ ~sub'.isSubmitting
                  /\ screate'[j].status = "ok" =>
                        ~sub'.showModal /\ Len(sfetch') = Len(sfetch) + 1
                  /\ screate'[j].status = "failed" =>
                        /\ sub'.showModal = sub.showModal
                        /\ sfetch' = sfetch
                        /\ Len(alerts') = Len(alerts) + 1
                        /\ alerts'[Len(alerts')].title = "Error"
       /\ (sub.showModal /\ ~sub'.showModal /\ screate' # screate) =>
              \E j \in 1..Len(screate) :
                  screate[j].status = "pending" /\ screate'[j].status = "ok" ]_vars

\* a confirmation without an address was refused, the next one was sent and
\* failed: its modal is still open and nothing was fetched again
C26_Witness ==
    /\ Len(screate) = 1 /\ screate[1].status = "failed" /\ screate[1].plan = "eco"
    /\ sub.showModal /\ ~sub.isSubmitting /\ Len(sfetch) = 1
    /\ Len(alerts) = 2
    /\ alerts[1].message = "Please enter your delivery address"
    /\ alerts[2] = [title |-> "Error", message |-> "Failed to create subscription"]

\* C29: when a fetchData call settles, isLoading and refreshing are false.
\* If only its subscription request failed, menu is the menu of the response,
\* todayMenu is taken from it and the subscription stays as displayed; if its
\* menu request failed, menu, todayMenu and subscription stay as they were.
C29_DashboardFetch ==
    [][\A k \in 1..Len(hfetch) :
          (~hfetch[k].settled /\ hfetch'[k].settled) =>
              /\ ~dash'.isLoading /\ ~dash'.refreshing
              /\ (hfetch'[k].menu = "ok" /\ hfetch'[k].sub = "failed") =>
                    /\ dash'.menu = hfetch'[k].menuData
                    /\ dash'.todayMenu = TodayItem(hfetch'[k].menuData, hfetch'[k].today)
                    /\ dash'.subscription = dash.subscription
              /\ hfetch'[k].menu = "failed" =>
                    /\ dash'.menu = dash.menu
                    /\ dash'.todayMenu = dash.todayMenu
                    /\ dash'.subscription = dash.subscription ]_vars

\* the first fetch showed a menu and the eco subscription; in the refresh the
\* subscription request failed and the menu came back empty
C29_Witness ==
    /\ Len(hfetch) = 2 /\ hfetch[1].settled /\ hfetch[1].subData = "eco"
    /\ hfetch[2].settled /\ hfetch[2].menu = "ok" /\ hfetch[2].sub = "failed"
    /\ hfetch[1].menuData = <<"mon", "tue">> /\ hfetch[2].menuData = <<>>
    /\ dash.menu = <<>> /\ dash.todayMenu = None /\ dash.subscription = "eco"
    /\ ~dash.isLoading /\ ~dash.refreshing

\* C30: the register screen calls register only when name, email, password
\* and confirmation are all non-empty, the two passwords are equal and the
\* password has at least 6 characters; while a registration is in flight the
\* button is disabled (isLoading), so no call is made while another is in
\* flight; and isLoading goes back to false only when handleRegister resumes
\* with a result whose success is false.
C30_RegisterScreen ==
    [][/\ \A p \in Ops :
             (pc[p] = "idle" /\ pc'[p] # "idle") =>
                 /\ reg.name # "" /\ reg.email # ""
                 /\ reg.password # "" /\ reg.confirmPassword # ""
                 /\ reg.password = reg.confirmPassword
                 /\ Len(reg.password) >= 6
                 /\ \A q \in Ops : pc[q] \in {"idle", "done"}
       /\ (\E p \in Ops : pc'[p] \notin {"idle", "done"}) => reg'.isLoading
       /\ (reg.isLoading /\ ~reg'.isLoading) =>
             \E p \in reg.awaiting :
                 /\ pc[p] = "done" /\ ~result[p].success
                 /\ p \notin reg'.awaiting]_vars

\* a first registration failed, the button came back, and a second one,
\* made with a password of exactly 6 characters, is in flight
C30_Witness ==
    /\ pc[1] = "done" /\ ~result[1].success
    /\ pc[2] = "http" /\ kind[2] = "register"
    /\ reg.isLoading /\ reg.awaiting = {2}
    /\ reg.password = "abc123"

====
